---------------------------- MODULE Spec2Model ----------------------------
(***************************************************************************)
(* A model of pygls/uris.py: the Uri value type (create, parse, for_file,  *)
(* fs_path, where, join, as_string) and the legacy string functions        *)
(* (from_fs_path, to_fs_path, uri_scheme, uri_with, urlparse, urlunparse). *)
(*                                                                         *)
(* A Python str is a sequence of one-character strings, so that slicing,   *)
(* searching, splitting and percent-coding are computed as the code        *)
(* computes them.  None and a non-string argument are one-element          *)
(* sequences holding a token that is no character.  A call returns a       *)
(* record: kind "uri", "str" or "none" with its value, or kind "raise"     *)
(* with the name of the Python exception that reaches the caller.          *)
(***************************************************************************)
EXTENDS Integers, Sequences, FiniteSets, TLC

VARIABLES isWin, self, op, arg, ret, rebinds

vars == <<isWin, self, op, arg, ret, rebinds>>

\* None, and an int argument such as 123
None == <<"<None>">>
IntArg == <<"<int>">>

\* The fields of a Uri, which are the keywords create() and where() take
Keys == {"scheme", "authority", "path", "query", "fragment"}

\* No Uri: what self holds before a constructor has returned one
NoUri == [scheme |-> None, authority |-> None, path |-> None, query |-> None,
          fragment |-> None]

---------------------------------------------------------------------------
(* Characters.                                                             *)

\* The printable ASCII characters, code 32 first (a token stands for the
\* backtick, which a TLA+ string cannot hold).
Printable ==
  <<" ", "!", "\"", "#", "$", "%", "&", "'", "(", ")", "*", "+", ",", "-", ".", "/",
    "0", "1", "2", "3", "4", "5", "6", "7", "8", "9", ":", ";", "<", "=", ">", "?",
    "@", "A", "B", "C", "D", "E", "F", "G", "H", "I", "J", "K", "L", "M", "N", "O",
    "P", "Q", "R", "S", "T", "U", "V", "W", "X", "Y", "Z", "[", "\\", "]", "^", "_",
    "<backtick>", "a", "b", "c", "d", "e", "f", "g", "h", "i", "j", "k", "l", "m", "n", "o",
    "p", "q", "r", "s", "t", "u", "v", "w", "x", "y", "z", "{", "|", "}", "~">>

\* What stands for a character the table does not hold (a control character
\* other than tab, LF and CR, or U+FFFD for an undecodable byte).
OtherChar == "<other>"

Ord(c) ==
  IF c = "\t" THEN 9
  ELSE IF c = "\n" THEN 10
  ELSE IF c = "\r" THEN 13
  ELSE 31 + (CHOOSE i \in 1..Len(Printable) : Printable[i] = c)

Chr(n) ==
  IF n = 9 THEN "\t"
  ELSE IF n = 10 THEN "\n"
  ELSE IF n = 13 THEN "\r"
  ELSE IF n >= 32 /\ n <= 126 THEN Printable[n - 31]
  ELSE OtherChar

IsUpper(c) == c # OtherChar /\ Ord(c) >= 65 /\ Ord(c) <= 90
IsLower(c) == c # OtherChar /\ Ord(c) >= 97 /\ Ord(c) <= 122
IsAlpha(c) == IsUpper(c) \/ IsLower(c)
IsDigit(c) == c # OtherChar /\ Ord(c) >= 48 /\ Ord(c) <= 57

\* str.lower() of one character
LowerChar(c) == IF IsUpper(c) THEN Chr(Ord(c) + 32) ELSE c

---------------------------------------------------------------------------
(* Python's str operations, on sequences of characters.                    *)

Min(a, b) == IF a <= b THEN a ELSE b

\* s[i:] and s[:n], with Python's 0-based indices
From(s, i) == SubSeq(s, Min(i, Len(s)) + 1, Len(s))
Upto(s, n) == SubSeq(s, 1, Min(n, Len(s)))

\* s.startswith(p) and s.endswith(p)
StartsWith(s, p) == Len(s) >= Len(p) /\ SubSeq(s, 1, Len(p)) = p
EndsWith(s, p) == Len(s) >= Len(p) /\ SubSeq(s, Len(s) - Len(p) + 1, Len(s)) = p

\* c in s
Has(s, c) == \E i \in 1..Len(s) : s[i] = c

\* s.find(c, start): the 0-based index of the first c at or after start, -1 if none
Find(s, c, start) ==
  LET hits == {i \in (start + 1)..Len(s) : s[i] = c}
  IN IF hits = {} THEN -1 ELSE (CHOOSE i \in hits : \A j \in hits : i <= j) - 1

\* s.rfind(c)
RFind(s, c) ==
  LET hits == {i \in 1..Len(s) : s[i] = c}
  IN IF hits = {} THEN -1 ELSE (CHOOSE i \in hits : \A j \in hits : i >= j) - 1

\* s.lower()
Lower(s) == [i \in 1..Len(s) |-> LowerChar(s[i])]

\* s.replace(a, b) for single characters a and b
ReplaceChar(s, a, b) == [i \in 1..Len(s) |-> IF s[i] = a THEN b ELSE s[i]]

\* s.replace(a, t) for a single character a and a string t
RECURSIVE ReplaceWith(_, _, _)
ReplaceWith(s, a, t) ==
  IF s = <<>> THEN <<>>
  ELSE (IF Head(s) = a THEN t ELSE <<Head(s)>>) \o ReplaceWith(Tail(s), a, t)

\* s.split(c): always at least one piece
RECURSIVE Split(_, _)
Split(s, c) ==
  LET i == Find(s, c, 0)
  IN IF i = -1 THEN <<s>> ELSE <<Upto(s, i)>> \o Split(From(s, i + 1), c)

\* c.join(pieces)
RECURSIVE Join(_, _)
Join(pieces, c) ==
  IF pieces = <<>> THEN <<>>
  ELSE IF Len(pieces) = 1 THEN pieces[1]
  ELSE pieces[1] \o c \o Join(Tail(pieces), c)

\* s.lstrip(c) for a single character c
RECURSIVE LStrip(_, _)
LStrip(s, c) == IF s # <<>> /\ Head(s) = c THEN LStrip(Tail(s), c) ELSE s

---------------------------------------------------------------------------
(* Python values that are no str, and the outcome of a call.               *)

IsStr(x) == x # None /\ x # IntArg

\* bool(x) for a str or None
Truthy(x) == x # None /\ x # <<>>

Ok(v) == [kind |-> "ok", val |-> v]
Raise(e) == [kind |-> "raise", exc |-> e]

---------------------------------------------------------------------------
(* urllib.parse, as pygls/uris.py calls it.                                *)

HexDigits == <<"0", "1", "2", "3", "4", "5", "6", "7", "8", "9", "A", "B", "C", "D", "E", "F">>

IsHex(c) == IsDigit(c) \/ (IsAlpha(c) /\ Ord(LowerChar(c)) <= 102)
HexVal(c) == IF IsDigit(c) THEN Ord(c) - 48 ELSE Ord(LowerChar(c)) - 87

\* The characters parse.quote leaves alone: letters, digits, "_.-~" and the
\* default safe character "/"
QuoteSafe(c) == IsAlpha(c) \/ IsDigit(c) \/ c \in {"_", ".", "-", "~", "/"}

\* parse.quote(s) of an ASCII str: every other character becomes %XX
RECURSIVE Quote(_)
Quote(s) ==
  IF s = <<>> THEN <<>>
  ELSE LET c == Head(s)
       IN (IF QuoteSafe(c) THEN <<c>>
           ELSE <<"%", HexDigits[(Ord(c) \div 16) + 1], HexDigits[(Ord(c) % 16) + 1]>>)
          \o Quote(Tail(s))

\* parse.unquote(s): %XX with two hex digits becomes the character of that
\* code, any other "%" stays
RECURSIVE Unquote(_)
Unquote(s) ==
  IF s = <<>> THEN <<>>
  ELSE IF Head(s) = "%" /\ Len(s) >= 3 /\ IsHex(s[2]) /\ IsHex(s[3])
    THEN <<Chr(16 * HexVal(s[2]) + HexVal(s[3]))>> \o Unquote(From(s, 3))
  ELSE <<Head(s)>> \o Unquote(Tail(s))

\* parse.uses_params and parse.uses_netloc
UsesParams ==
  {<<>>, <<"f", "t", "p">>, <<"h", "d", "l">>,
   <<"p", "r", "o", "s", "p", "e", "r", "o">>, <<"h", "t", "t", "p">>,
   <<"i", "m", "a", "p">>, <<"h", "t", "t", "p", "s">>, <<"s", "h", "t", "t", "p">>,
   <<"r", "t", "s", "p">>, <<"r", "t", "s", "p", "s">>, <<"r", "t", "s", "p", "u">>,
   <<"s", "i", "p">>, <<"s", "i", "p", "s">>, <<"m", "m", "s">>,
   <<"s", "f", "t", "p">>, <<"t", "e", "l">>}

UsesNetloc ==
  {<<>>, <<"f", "t", "p">>, <<"h", "t", "t", "p">>, <<"g", "o", "p", "h", "e", "r">>,
   <<"n", "n", "t", "p">>, <<"t", "e", "l", "n", "e", "t">>, <<"i", "m", "a", "p">>,
   <<"w", "a", "i", "s">>, <<"f", "i", "l", "e">>, <<"m", "m", "s">>,
   <<"h", "t", "t", "p", "s">>, <<"s", "h", "t", "t", "p">>, <<"s", "n", "e", "w", "s">>,
   <<"p", "r", "o", "s", "p", "e", "r", "o">>, <<"r", "t", "s", "p">>,
   <<"r", "t", "s", "p", "s">>, <<"r", "t", "s", "p", "u">>, <<"r", "s", "y", "n", "c">>,
   <<"s", "v", "n">>, <<"s", "v", "n", "+", "s", "s", "h">>, <<"s", "f", "t", "p">>,
   <<"n", "f", "s">>, <<"g", "i", "t">>, <<"g", "i", "t", "+", "s", "s", "h">>,
   <<"w", "s">>, <<"w", "s", "s">>}

\* A character of parse.scheme_chars
SchemeChar(c) == IsAlpha(c) \/ IsDigit(c) \/ c \in {"+", "-", "."}

\* url.lstrip(_WHATWG_C0_CONTROL_OR_SPACE)
RECURSIVE LStripC0(_)
LStripC0(s) ==
  IF s # <<>> /\ (Head(s) = OtherChar \/ Ord(Head(s)) <= 32) THEN LStripC0(Tail(s)) ELSE s

\* The tab, CR and LF that urlsplit removes from a url
RemoveUnsafe(s) == SelectSeq(s, LAMBDA c : c \notin {"\t", "\r", "\n"})

\* _splitnetloc(url, 2): the 0-based index of the first of "/?#" at or after 2
NetlocEnd(url) ==
  LET ends == {Find(url, c, 2) : c \in {"/", "?", "#"}} \ {-1}
  IN IF ends = {} THEN Len(url) ELSE CHOOSE i \in ends : \A j \in ends : i <= j

\* _splitparams(url)
SplitParams(url) ==
  LET i == IF Has(url, "/") THEN Find(url, ";", RFind(url, "/")) ELSE Find(url, ";", 0)
  IN IF i < 0 THEN <<url, <<>>>> ELSE <<Upto(url, i), From(url, i + 1)>>

\* urlsplit: the scheme, lower-cased, and what follows its ":"
SplitScheme(url) ==
  LET i == Find(url, ":", 0)
  IN IF i > 0 /\ IsAlpha(url[1]) /\ \A k \in 1..i : SchemeChar(url[k])
     THEN <<Lower(Upto(url, i)), From(url, i + 1)>>
     ELSE <<<<>>, url>>

\* urlsplit: the netloc after a leading "//", and what follows it
SplitNetloc(url) ==
  IF Upto(url, 2) = <<"/", "/">>
  THEN <<SubSeq(url, 3, NetlocEnd(url)), From(url, NetlocEnd(url))>>
  ELSE <<<<>>, url>>

\* urlsplit: url.split(c, 1) for the "#" of the fragment and the "?" of the
\* query
SplitAt(url, c) ==
  IF Has(url, c) THEN <<Upto(url, Find(url, c, 0)), From(url, Find(url, c, 0) + 1)>>
  ELSE <<url, <<>>>>

\* urlparse: the params of a scheme that uses them
SplitUrl(scheme, url) ==
  IF scheme \in UsesParams /\ Has(url, ";") THEN SplitParams(url) ELSE <<url, <<>>>>

\* The six parts, or the ValueError of an unbalanced "[" or "]" in the netloc
UrlParts(scheme, netloc, pathParams, query, fragment) ==
  IF Has(netloc, "[") # Has(netloc, "]")
  THEN Raise("ValueError")
  ELSE Ok(<<scheme, netloc, pathParams[1], pathParams[2], query, fragment>>)

\* urlsplit after the scheme, the netloc and the fragment are split off
AfterFragment(scheme, netloc, rest, fragment) ==
  UrlParts(scheme, netloc, SplitUrl(scheme, SplitAt(rest, "?")[1]), SplitAt(rest, "?")[2],
           fragment)

AfterNetloc(scheme, netloc, rest) ==
  AfterFragment(scheme, netloc, SplitAt(rest, "#")[1], SplitAt(rest, "#")[2])

AfterScheme(scheme, rest) ==
  AfterNetloc(scheme, SplitNetloc(rest)[1], SplitNetloc(rest)[2])

\* parse.urlparse(uri) of a str: the six parts, not yet unquoted
PyUrlparse(uri) ==
  AfterScheme(SplitScheme(RemoveUnsafe(LStripC0(uri)))[1],
              SplitScheme(RemoveUnsafe(LStripC0(uri)))[2])

\* parse.urlunparse(parts) of six str
PyUrlunparse(parts) ==
  LET scheme == parts[1]
      netloc == parts[2]
      url0 == IF parts[4] # <<>> THEN parts[3] \o <<";">> \o parts[4] ELSE parts[3]
      url1 == IF netloc # <<>>
                 \/ (scheme # <<>> /\ scheme \in UsesNetloc /\ Upto(url0, 2) # <<"/", "/">>)
              THEN <<"/", "/">> \o netloc
                   \o (IF url0 # <<>> /\ Upto(url0, 1) # <<"/">> THEN <<"/">> ELSE <<>>)
                   \o url0
              ELSE url0
      url2 == IF scheme # <<>> THEN scheme \o <<":">> \o url1 ELSE url1
      url3 == IF parts[5] # <<>> THEN url2 \o <<"?">> \o parts[5] ELSE url2
  IN IF parts[6] # <<>> THEN url3 \o <<"#">> \o parts[6] ELSE url3

---------------------------------------------------------------------------
(* os.path, which is posixpath when IS_WIN is false and ntpath when true.  *)

\* posixpath.join(a, b)
PosixJoin(a, b) ==
  IF StartsWith(b, <<"/">>) THEN b
  ELSE IF a = <<>> \/ EndsWith(a, <<"/">>) THEN a \o b
  ELSE a \o <<"/">> \o b

\* The loop of posixpath.normpath over the pieces of the path
RECURSIVE PosixCollapse(_, _, _)
PosixCollapse(comps, new, initial) ==
  IF comps = <<>> THEN new
  ELSE LET comp == Head(comps)
       IN IF comp = <<>> \/ comp = <<".">> THEN PosixCollapse(Tail(comps), new, initial)
          ELSE IF \/ comp # <<".", ".">>
                  \/ (initial = 0 /\ new = <<>>)
                  \/ (new # <<>> /\ new[Len(new)] = <<".", ".">>)
            THEN PosixCollapse(Tail(comps), Append(new, comp), initial)
          ELSE IF new # <<>>
            THEN PosixCollapse(Tail(comps), Upto(new, Len(new) - 1), initial)
          ELSE PosixCollapse(Tail(comps), new, initial)

\* posixpath.normpath(path)
PosixNormpath(path) ==
  IF path = <<>> THEN <<".">>
  ELSE LET initial == IF ~StartsWith(path, <<"/">>) THEN 0
                      ELSE IF StartsWith(path, <<"/", "/">>)
                              /\ ~StartsWith(path, <<"/", "/", "/">>) THEN 2
                      ELSE 1
           body == Join(PosixCollapse(Split(path, "/"), <<>>, initial), <<"/">>)
           out == [i \in 1..initial |-> "/"] \o body
       IN IF out = <<>> THEN <<".">> ELSE out

UpperChar(c) == IF IsLower(c) THEN Chr(Ord(c) - 32) ELSE c
Upper(s) == [i \in 1..Len(s) |-> UpperChar(s[i])]

\* ntpath.splitdrive(p): <<drive, rest>>
NtSplitdrive(p) ==
  LET normp == ReplaceChar(p, "/", "\\")
      start == IF Upper(Upto(normp, 8)) = <<"\\", "\\", "?", "\\", "U", "N", "C", "\\">>
               THEN 8 ELSE 2
      index == Find(normp, "\\", start)
      index2 == Find(normp, "\\", index + 1)
  IN IF Len(p) >= 2 /\ Upto(normp, 2) = <<"\\", "\\">>
       THEN IF index = -1 \/ index2 = -1 THEN <<p, <<>>>>
            ELSE <<Upto(p, index2), From(p, index2)>>
     ELSE IF Len(p) >= 2 /\ normp[2] = ":" THEN <<Upto(p, 2), From(p, 2)>>
     ELSE <<<<>>, p>>

IsSep(c) == c \in {"\\", "/"}

\* ntpath.join(path, p)
NtJoin(path, p) ==
  LET r == NtSplitdrive(path)
      q == NtSplitdrive(p)
      absolute == q[2] # <<>> /\ IsSep(q[2][1])
      otherDrive == q[1] # <<>> /\ q[1] # r[1] /\ Lower(q[1]) # Lower(r[1])
      drive == IF absolute THEN (IF q[1] # <<>> \/ r[1] = <<>> THEN q[1] ELSE r[1])
               ELSE IF q[1] # <<>> /\ q[1] # r[1] THEN q[1]
               ELSE r[1]
      rest == IF absolute \/ otherDrive THEN q[2]
              ELSE (IF r[2] # <<>> /\ ~IsSep(r[2][Len(r[2])]) THEN r[2] \o <<"\\">> ELSE r[2])
                   \o q[2]
  IN IF rest # <<>> /\ ~IsSep(rest[1]) /\ drive # <<>> /\ drive[Len(drive)] # ":"
     THEN drive \o <<"\\">> \o rest
     ELSE drive \o rest

\* The loop of ntpath.normpath over the pieces of the path
RECURSIVE NtCollapse(_, _, _)
NtCollapse(comps, new, rooted) ==
  IF comps = <<>> THEN new
  ELSE LET comp == Head(comps)
       IN IF comp = <<>> \/ comp = <<".">> THEN NtCollapse(Tail(comps), new, rooted)
          ELSE IF comp = <<".", ".">> /\ new # <<>> /\ new[Len(new)] # <<".", ".">>
            THEN NtCollapse(Tail(comps), Upto(new, Len(new) - 1), rooted)
          ELSE IF comp = <<".", ".">> /\ new = <<>> /\ rooted
            THEN NtCollapse(Tail(comps), new, rooted)
          ELSE NtCollapse(Tail(comps), Append(new, comp), rooted)

\* ntpath.normpath(path)
NtNormpath(path) ==
  LET d == NtSplitdrive(ReplaceChar(path, "/", "\\"))
      rooted == StartsWith(d[2], <<"\\">>)
      prefix == IF rooted THEN d[1] \o <<"\\">> ELSE d[1]
      comps == NtCollapse(Split(LStrip(d[2], "\\"), "\\"), <<>>, EndsWith(prefix, <<"\\">>))
  IN IF prefix = <<>> /\ comps = <<>> THEN <<".">>
     ELSE prefix \o Join(comps, <<"\\">>)

---------------------------------------------------------------------------
(* pygls/uris.py: the regular expressions and the private helpers.         *)

RetUri(u) == [kind |-> "uri", val |-> u]
RetStr(v) == [kind |-> "str", val |-> v]
RetNone == [kind |-> "none"]

\* SCHEME.match(s): a letter, then letters, digits, "+", "." and "-" up to
\* the "$", which Python matches at the end and also before a final newline
SchemeMatch(s) ==
  LET body == IF s # <<>> /\ s[Len(s)] = "\n" THEN Upto(s, Len(s) - 1) ELSE s
  IN /\ body # <<>>
     /\ IsAlpha(body[1])
     /\ \A i \in 2..Len(body) : SchemeChar(body[i])

\* RE_DRIVE_LETTER_PATH.match(path): where the match ends, 0 for no match
\* (an optional "/", a letter and a ":")
DriveLetterEnd(path) ==
  IF StartsWith(path, <<"/">>)
    THEN IF Len(path) >= 3 /\ IsAlpha(path[2]) /\ path[3] = ":" THEN 3 ELSE 0
  ELSE IF Len(path) >= 2 /\ IsAlpha(path[1]) /\ path[2] = ":" THEN 2 ELSE 0

\* _replace_chars(segment)
ReplaceChars(segment) ==
  ReplaceWith(ReplaceWith(segment, "#", <<"%", "2", "3">>), "?", <<"%", "3", "F">>)

\* _normalize_path without the lower-casing of the drive letter
NormalizePathKeepCase(win, path) == IF win THEN ReplaceChar(path, "\\", "/") ELSE path

\* _normalize_path(path)
NormalizePath(win, path) ==
  LET p == IF win THEN ReplaceChar(path, "\\", "/") ELSE path
      e == DriveLetterEnd(p)
  IN IF e > 0 THEN Lower(Upto(p, e)) \o From(p, e) ELSE p

\* _normalize_win_path(path): Ok(<<path, netloc>>), or the exception of
\* slicing or replacing in a value that is no str, or of path.index
NormalizeWinPath(win, path) ==
  IF ~IsStr(path) THEN Raise(IF win THEN "AttributeError" ELSE "TypeError")
  ELSE LET p0 == IF win THEN ReplaceChar(path, "\\", "/") ELSE path
           unc == Upto(p0, 2) = <<"/", "/">>
           idx == Find(p0, "/", 2)
           netloc == IF unc THEN SubSeq(p0, 3, idx) ELSE <<>>
           p1 == IF unc THEN From(p0, idx) ELSE p0
           p2 == IF ~StartsWith(p1, <<"/">>) THEN <<"/">> \o p1 ELSE p1
           p3 == IF DriveLetterEnd(p2) > 0
                 THEN <<p2[1], LowerChar(p2[2])>> \o From(p2, 2) ELSE p2
       IN IF unc /\ idx = -1 THEN Raise("ValueError") ELSE Ok(<<p3, netloc>>)

\* urlparse(uri): parse.urlparse, then parse.unquote of each part.  None
\* parses as the empty bytes, an int has no decode
urlparse(u) ==
  IF u = None THEN Ok(<<<<>>, <<>>, <<>>, <<>>, <<>>, <<>>>>)
  ELSE IF u = IntArg THEN Raise("AttributeError")
  ELSE LET r == PyUrlparse(u)
       IN IF r.kind = "raise" THEN r
          ELSE Ok([i \in 1..6 |-> Unquote(r.val[i])])

\* urlunparse(parts)
urlunparse(parts) ==
  LET path == parts[3]
      quoted_path == IF DriveLetterEnd(path) > 0
                     THEN Upto(path, 3) \o Quote(From(path, 3)) ELSE Quote(path)
  IN PyUrlunparse(<<Quote(parts[1]), Quote(parts[2]), quoted_path,
                    Quote(parts[4]), Quote(parts[5]), Quote(parts[6])>>)

---------------------------------------------------------------------------
(* pygls/uris.py: class Uri.                                               *)

CoercedSchemes == {<<"h", "t", "t", "p">>, <<"h", "t", "t", "p", "s">>, <<"f", "i", "l", "e">>}

\* __attrs_post_init__ without the check of a path under an authority
PostInitNoSlashCheck(u) ==
  IF u.scheme = None THEN Raise("ValueError")
  ELSE IF ~SchemeMatch(u.scheme) THEN Raise("ValueError")
  ELSE IF Truthy(u.path) /\ StartsWith(u.path, <<"/", "/">>) /\ ~Truthy(u.authority)
    THEN Raise("ValueError")
  ELSE RetUri(u)

\* __attrs_post_init__ without the check of a path of two leading slashes
PostInitNoDoubleSlashCheck(u) ==
  IF u.scheme = None THEN Raise("ValueError")
  ELSE IF ~SchemeMatch(u.scheme) THEN Raise("ValueError")
  ELSE IF Truthy(u.authority) /\ Truthy(u.path) /\ ~StartsWith(u.path, <<"/">>)
    THEN Raise("ValueError")
  ELSE RetUri(u)

\* Uri.__attrs_post_init__, run by the generated __init__
PostInit(u) ==
  IF u.scheme = None THEN Raise("ValueError")
  ELSE IF ~SchemeMatch(u.scheme) THEN Raise("ValueError")
  ELSE IF Truthy(u.authority) /\ Truthy(u.path) /\ ~StartsWith(u.path, <<"/">>)
    THEN Raise("ValueError")
  ELSE IF Truthy(u.path) /\ StartsWith(u.path, <<"/", "/">>) /\ ~Truthy(u.authority)
    THEN Raise("ValueError")
  ELSE RetUri(u)

\* Uri.create(scheme=, authority=, path=, query=, fragment=)
Create(u) ==
  IF u.scheme \in CoercedSchemes /\ u.path = None THEN Raise("AttributeError")
  ELSE IF u.scheme \in CoercedSchemes /\ ~StartsWith(u.path, <<"/">>)
    THEN PostInit([u EXCEPT !.path = <<"/">> \o u.path])
  ELSE PostInit(u)

\* Uri.parse(uri)
Parse(s) ==
  LET r == urlparse(s)
  IN IF r.kind = "raise" THEN r
     ELSE Create([scheme |-> r.val[1], authority |-> r.val[2], path |-> r.val[3],
                  query |-> r.val[5], fragment |-> r.val[6]])

\* for_file that takes no authority from a UNC path
ForFileNoUnc(win, filepath) ==
  Create([scheme |-> <<"f", "i", "l", "e">>, authority |-> <<>>,
          path |-> IF win THEN ReplaceChar(filepath, "\\", "/") ELSE filepath,
          query |-> <<>>, fragment |-> <<>>])

\* Uri.for_file(filepath)
ForFile(win, filepath) ==
  LET f == IF win THEN ReplaceChar(filepath, "\\", "/") ELSE filepath
      pieces == Split(From(f, 2), "/")
      unc == StartsWith(f, <<"/", "/">>)
  IN Create([scheme |-> <<"f", "i", "l", "e">>,
             authority |-> IF unc THEN pieces[1] ELSE <<>>,
             path |-> IF unc THEN Join(Tail(pieces), <<"/">>) ELSE f,
             query |-> <<>>, fragment |-> <<>>])

\* Uri.fs_path
FsPath(win, u) ==
  IF ~Truthy(u.path) THEN RetNone
  ELSE LET p0 == NormalizePath(win, u.path)
           p1 == IF Truthy(u.authority) /\ Len(p0) > 1 THEN <<"/", "/">> \o u.authority \o p0
                 ELSE IF DriveLetterEnd(p0) > 0 THEN From(p0, 1)
                 ELSE p0
       IN RetStr(IF win THEN ReplaceChar(p1, "\\", "/") ELSE p1)

\* Uri.where(**kwargs): kwargs is a sequence of <<key, value>> pairs, no key
\* twice
Where(u, kwargs) ==
  LET given(k) == {i \in 1..Len(kwargs) : kwargs[i][1] = k}
      merged(k) == IF k \in Keys /\ given(k) # {}
                   THEN kwargs[CHOOSE i \in given(k) : TRUE][2] ELSE u[k]
  IN Create([scheme |-> merged("scheme"), authority |-> merged("authority"),
             path |-> merged("path"), query |-> merged("query"),
             fragment |-> merged("fragment")])

\* Uri.join(path)
JoinPath(win, u, path) ==
  IF ~Truthy(u.path) THEN Raise("ValueError")
  ELSE LET new_path == IF win THEN NtNormpath(NtJoin(u.path, path))
                       ELSE PosixNormpath(PosixJoin(u.path, path))
       IN Where(u, <<<<"path", new_path>>>>)

\* An encoder that leaves every character as it is
EncoderPlain(encode, segment) == segment

\* encoder(segment) in Uri.as_string
Encoder(encode, segment) == IF encode THEN Quote(segment) ELSE ReplaceChars(segment)

\* The authority of Uri.as_string, for a non-empty authority
AsStringAuthority(encode, authority) ==
  LET at == Split(authority, "@")
      hasCred == Len(at) > 1
      cs == Split(at[1], ":")
      usercred == IF ~hasCred THEN <<>>
                  ELSE IF Len(cs) > 1
                    THEN Encoder(encode, Join(Upto(cs, Len(cs) - 1), <<":">>))
                         \o <<":">> \o Encoder(encode, cs[Len(cs)])
                  ELSE Encoder(encode, at[1])
      host == Lower(IF hasCred THEN Join(Tail(at), <<"@">>) ELSE authority)
      hp == Split(host, ":")
      hostport == IF Len(hp) > 1
                  THEN Encoder(encode, Join(Upto(hp, Len(hp) - 1), <<":">>))
                       \o <<":">> \o hp[Len(hp)]
                  ELSE Encoder(encode, host)
  IN IF usercred # <<>> THEN usercred \o <<"@">> \o hostport ELSE hostport

\* Uri.as_string(encode)
AsString(win, u, encode) ==
  LET authority == IF Truthy(u.authority) THEN AsStringAuthority(encode, u.authority)
                   ELSE <<>>
      scheme_separator == IF authority # <<>> \/ u.scheme = <<"f", "i", "l", "e">>
                          THEN <<"/", "/">> ELSE <<>>
      path == IF Truthy(u.path) THEN Encoder(encode, NormalizePath(win, u.path)) ELSE <<>>
      query == IF Truthy(u.query) THEN Encoder(encode, u.query) ELSE <<>>
      fragment == IF Truthy(u.fragment) THEN Encoder(encode, u.fragment) ELSE <<>>
  IN RetStr(u.scheme \o <<":">> \o scheme_separator \o authority \o path
            \o (IF query # <<>> THEN <<"?">> \o query ELSE <<>>)
            \o (IF fragment # <<>> THEN <<"#">> \o fragment ELSE <<>>))

---------------------------------------------------------------------------
(* pygls/uris.py: the legacy functions.                                    *)

\* from_fs_path(path)
from_fs_path(win, path) ==
  LET r == NormalizeWinPath(win, path)
  IN IF r.kind = "raise"
       THEN IF r.exc \in {"AttributeError", "TypeError"} THEN RetNone ELSE r
     ELSE RetStr(urlunparse(<<<<"f", "i", "l", "e">>, r.val[2], r.val[1], <<>>, <<>>, <<>>>>))

\* to_fs_path(uri)
to_fs_path(win, u) ==
  LET r == urlparse(u)
  IN IF r.kind = "raise" THEN (IF r.exc = "TypeError" THEN RetNone ELSE r)
     ELSE LET scheme == r.val[1]
              netloc == r.val[2]
              path == r.val[3]
              value == IF netloc # <<>> /\ path # <<>> /\ scheme = <<"f", "i", "l", "e">>
                         THEN <<"/", "/">> \o netloc \o path
                       ELSE IF DriveLetterEnd(path) > 0
                         THEN <<LowerChar(path[2])>> \o From(path, 2)
                       ELSE path
          IN RetStr(IF win THEN ReplaceChar(value, "/", "\\") ELSE value)

\* uri_scheme(uri)
uri_scheme(u) ==
  LET r == urlparse(u)
  IN IF r.kind = "raise" THEN (IF r.exc \in {"TypeError", "IndexError"} THEN RetNone ELSE r)
     ELSE RetStr(r.val[1])

\* uri_with(uri, scheme, netloc, path, params, query, fragment): parts holds
\* the six replacements in that order, None for one that is not given
uri_with(win, u, parts) ==
  LET old == urlparse(u)
      n == NormalizeWinPath(win, parts[3])
      pick(new, was) == IF Truthy(new) THEN new ELSE was
  IN IF old.kind = "raise" THEN old
     ELSE IF n.kind = "raise" THEN n
     ELSE RetStr(urlunparse(<<pick(parts[1], old.val[1]), pick(parts[2], old.val[2]),
                              pick(n.val[1], old.val[3]), pick(parts[4], old.val[4]),
                              pick(parts[5], old.val[5]), pick(parts[6], old.val[6])>>))

---------------------------------------------------------------------------
(* The arguments the calls are made with.                                  *)

File == <<"f", "i", "l", "e">>
Http == <<"h", "t", "t", "p">>
Https == <<"h", "t", "t", "p", "s">>

\* Schemes: the three coerced ones, two others, and a leading digit, the
\* empty string, a final newline and None
Schemes ==
  {File, Http, Https, <<"s">>, <<"S">>, <<"1", "s">>, <<>>, <<"s", "\n">>, None}

Authorities == {<<>>, <<"h">>, <<"H">>}

Paths ==
  {<<>>, <<"a">>, <<"/", "a">>, <<"/", "a", "/", "b">>, <<"/", "/", "a">>,
   <<"/", "/", "a", "/", "/", "b">>,
   <<"/", "C", ":", "/", "a">>, <<"/", "a", "\\", "b">>}

Queries == {<<>>, <<"%", "4", "1", "#">>}

Fragments == {<<>>, <<"f", "#">>}

\* What create() is given: every scheme with every authority and path, and
\* every query and fragment with a few of them
CreateArgs ==
  {[scheme |-> sc, authority |-> a, path |-> pa, query |-> <<>>, fragment |-> <<>>] :
     sc \in Schemes, a \in Authorities, pa \in Paths}
  \cup {[scheme |-> sc, authority |-> <<>>, path |-> pa, query |-> q, fragment |-> f] :
          sc \in {File, <<"s">>}, pa \in {<<>>, <<"/", "a">>}, q \in Queries, f \in Fragments}

\* What where() is given for each key; "colour" is no component of a Uri
WhereValues(k) ==
  CASE k = "scheme" -> {None, File}
    [] k = "authority" -> {None, <<"h">>}
    [] k = "path" -> {None, <<"a">>, <<"/", "/", "a">>}
    [] k = "query" -> {None, <<"q">>}
    [] k = "fragment" -> {None}
    [] OTHER -> {<<"x">>}

WhereKeys == Keys \cup {"colour"}

\* The segments join() is given
Segments ==
  {<<".", ".", "/", "c">>, <<".">>, <<"b", "/", "/", "c">>, <<"/", "b">>, <<"/", "/", "b">>}

\* The caller keeps a returned Uri in place of self at most this many times
MaxRebinds == 1

\* The strings parse() and the legacy functions are given: every scheme
\* prefix with every authority part and every path, drive letters in both
\* cases with every remainder, and a few of no such shape
SchemeParts == {<<>>, File \o <<":">>, Http \o <<":">>, <<"F", "i", "l", "e", ":">>}
AuthorityParts == {<<>>, <<"/", "/">>, <<"/", "/", "h">>, <<"/", "/", "H">>}
PathParts ==
  {<<>>, <<"a">>, <<"/", "a">>, <<"C", ":", "/", "a">>,
   <<"/", "a", "?", "q", "#", "f">>, <<"/", "a", ";", "%", "4", "1">>}

DriveLetters == {"C", "c"}
Remainders ==
  {<<>>, <<"/">>, <<"/", "A", "/", "b">>, <<"a">>, <<"?", "q">>,
   <<"%", "4", "1">>, <<"\\", "a">>, <<"/", "a", " ", "b">>}
DriveUri(L, r) == File \o <<":", "/", "/", "/", L, ":">> \o r

UriStrings ==
  {s \o a \o q : s \in SchemeParts, a \in AuthorityParts, q \in PathParts}
  \cup {DriveUri(L, r) : L \in DriveLetters, r \in Remainders}
  \cup {Http \o <<":", "/", "/", "[">>, <<"1", "s", ":", "a">>, <<"s", "\n", ":", "a">>}

\* The paths for_file() and from_fs_path() are given: UNC paths of a server
\* and a rest, and others
Servers == {<<"s">>, <<"S">>}
Rests ==
  {<<"a">>, <<"a", "/", "b">>, <<"/", "a">>, <<"C", ":", "/", "a">>, <<"c", ":", "/", "a">>,
   <<"a", "\\", "b">>, <<"a", "/">>, <<".">>}
UncPath(server, rest) == <<"/", "/">> \o server \o <<"/">> \o rest

FilePaths ==
  {UncPath(sv, r) : sv \in Servers, r \in Rests}
  \cup {<<>>, <<"/">>, <<"a">>, <<"/", "a">>, <<"/", "/">>, <<"/", "/", "s">>, <<"/", "/", "s", "/">>,
        <<"/", "/", "/", "a">>, <<"/", "C", ":", "/", "a">>, <<"C", ":", "\\", "a">>,
        <<"\\", "\\", "s", "\\", "a">>}

\* The replacements uri_with() is given, in the order scheme, netloc, path,
\* params, query, fragment
WithParts ==
  {<<None, None, None, None, None, None>>,
   <<None, None, <<"/", "p">>, None, None, None>>,
   <<None, None, <<"/", "/", "s">>, None, None, None>>,
   <<<<"s">>, <<"h">>, <<"/", "C", ":", "/", "p">>, None, <<"q">>, None>>}

---------------------------------------------------------------------------
(* The calls.  self is the Uri the caller holds: a constructor binds it, a *)
(* method leaves it as it is and returns its result in ret, and the caller *)
(* may keep a Uri that where() or join() returned in its place.  Every     *)
(* function is pure, so a call's result depends on its arguments, on self  *)
(* and on isWin alone: each call is made once from the state that bound    *)
(* self, and no call is made on a result that is not kept.                 *)

Init ==
  /\ isWin \in BOOLEAN
  /\ self = NoUri
  /\ op = "init"
  /\ arg = <<>>
  /\ ret = RetNone
  /\ rebinds = 0

Bound(r) == IF r.kind = "uri" THEN r.val ELSE NoUri

\* Nothing has been called yet
Fresh == op = "init"

\* self has just been bound to a Uri
Ready == op \in {"create", "parse", "for_file", "rebind"} /\ self # NoUri

\* u = Uri.create(scheme=, authority=, path=, query=, fragment=)
DoCreate(kwargs) ==
  /\ Fresh
  /\ op' = "create"
  /\ arg' = kwargs
  /\ ret' = Create(kwargs)
  /\ self' = Bound(ret')
  /\ UNCHANGED <<isWin, rebinds>>

\* u = Uri.parse(uri)
DoParse(s) ==
  /\ Fresh
  /\ op' = "parse"
  /\ arg' = s
  /\ ret' = Parse(s)
  /\ self' = Bound(ret')
  /\ UNCHANGED <<isWin, rebinds>>

\* u = Uri.for_file(filepath)
DoForFile(filepath) ==
  /\ Fresh
  /\ op' = "for_file"
  /\ arg' = filepath
  /\ ret' = ForFile(isWin, filepath)
  /\ self' = Bound(ret')
  /\ UNCHANGED <<isWin, rebinds>>

\* u.where(k=v)
DoWhere(k, v) ==
  /\ Ready
  /\ op' = "where"
  /\ arg' = <<k, v>>
  /\ ret' = Where(self, <<<<k, v>>>>)
  /\ UNCHANGED <<isWin, self, rebinds>>

\* u.join(path)
DoJoin(path) ==
  /\ Ready
  /\ op' = "join"
  /\ arg' = path
  /\ ret' = JoinPath(isWin, self, path)
  /\ UNCHANGED <<isWin, self, rebinds>>

\* u.fs_path
DoFsPath ==
  /\ Ready
  /\ op' = "fs_path"
  /\ arg' = <<>>
  /\ ret' = FsPath(isWin, self)
  /\ UNCHANGED <<isWin, self, rebinds>>

\* u.as_string(encode)
DoAsString(encode) ==
  /\ Ready
  /\ op' = "as_string"
  /\ arg' = <<encode>>
  /\ ret' = AsString(isWin, self, encode)
  /\ UNCHANGED <<isWin, self, rebinds>>

\* Uri.parse(text) of the text as_string(encode) has just returned; arg
\* keeps encode and the text
DoParseBack ==
  /\ op = "as_string"
  /\ op' = "parse_back"
  /\ arg' = <<arg[1], ret.val>>
  /\ ret' = Parse(ret.val)
  /\ UNCHANGED <<isWin, self, rebinds>>

\* u = u.where(...) or u = u.join(...): the caller keeps the Uri returned
DoRebind ==
  /\ op \in {"where", "join"}
  /\ ret.kind = "uri"
  /\ rebinds < MaxRebinds
  /\ rebinds' = rebinds + 1
  /\ self' = ret.val
  /\ op' = "rebind"
  /\ arg' = <<>>
  /\ ret' = RetNone
  /\ UNCHANGED isWin

\* from_fs_path(path)
DoFromFsPath(path) ==
  /\ Fresh
  /\ op' = "from_fs_path"
  /\ arg' = path
  /\ ret' = from_fs_path(isWin, path)
  /\ UNCHANGED <<isWin, self, rebinds>>

\* to_fs_path(uri)
DoToFsPath(u) ==
  /\ Fresh
  /\ op' = "to_fs_path"
  /\ arg' = u
  /\ ret' = to_fs_path(isWin, u)
  /\ UNCHANGED <<isWin, self, rebinds>>

\* uri_scheme(uri)
DoUriScheme(u) ==
  /\ Fresh
  /\ op' = "uri_scheme"
  /\ arg' = u
  /\ ret' = uri_scheme(u)
  /\ UNCHANGED <<isWin, self, rebinds>>

\* uri_with(uri, scheme, netloc, path, params, query, fragment)
DoUriWith(u, parts) ==
  /\ Fresh
  /\ op' = "uri_with"
  /\ arg' = <<u, parts>>
  /\ ret' = uri_with(isWin, u, parts)
  /\ UNCHANGED <<isWin, self, rebinds>>

Next ==
  \/ \E kwargs \in CreateArgs : DoCreate(kwargs)
  \/ \E s \in UriStrings : DoParse(s)
  \/ \E fp \in FilePaths : DoForFile(fp)
  \/ \E k \in WhereKeys : \E v \in WhereValues(k) : DoWhere(k, v)
  \/ \E sg \in Segments : DoJoin(sg)
  \/ DoFsPath
  \/ \E e \in BOOLEAN : DoAsString(e)
  \/ DoParseBack
  \/ DoRebind
  \/ \E fp \in FilePaths \cup {None, IntArg} : DoFromFsPath(fp)
  \/ \E u \in UriStrings \cup {None, IntArg} : DoToFsPath(u)
  \/ \E u \in UriStrings \cup {None, IntArg} : DoUriScheme(u)
  \/ \E u \in UriStrings \cup {None, IntArg}, parts \in WithParts : DoUriWith(u, parts)

Spec == Init /\ [][Next]_vars

---------------------------------------------------------------------------
(* What the specification's words mean.                                    *)

\* A scheme of the grammar [A-Za-z][A-Za-z0-9+.-]*
SchemeGrammar(s) ==
  /\ IsStr(s)
  /\ s # <<>>
  /\ IsAlpha(s[1])
  /\ \A i \in 2..Len(s) : SchemeChar(s[i])

\* Every component of u is a str
AllStr(u) ==
  IsStr(u.scheme) /\ IsStr(u.authority) /\ IsStr(u.path) /\ IsStr(u.query) /\ IsStr(u.fragment)

\* The construction invariants: the scheme grammar, a path under an
\* authority starts with "/", a path of two leading slashes has an
\* authority, and a path under http, https or file starts with "/".  An
\* absent component counts as an empty one.
WellFormed(u) ==
  /\ SchemeGrammar(u.scheme)
  /\ (Truthy(u.authority) /\ Truthy(u.path)) => StartsWith(u.path, <<"/">>)
  /\ (Truthy(u.path) /\ StartsWith(u.path, <<"/", "/">>)) => Truthy(u.authority)
  /\ u.scheme \in CoercedSchemes => (Truthy(u.path) /\ StartsWith(u.path, <<"/">>))

\* u with component k replaced by v
With(u, k, v) ==
  [scheme |-> IF k = "scheme" THEN v ELSE u.scheme,
   authority |-> IF k = "authority" THEN v ELSE u.authority,
   path |-> IF k = "path" THEN v ELSE u.path,
   query |-> IF k = "query" THEN v ELSE u.query,
   fragment |-> IF k = "fragment" THEN v ELSE u.fragment]

\* The characters of s
Chars(s) == {s[i] : i \in 1..Len(s)}

---------------------------------------------------------------------------
(* C1: parse(u.as_string(encode)) and u.                                   *)

\* The Uris that as_string writes as they are: the scheme in lower case,
\* the authority a host name of lower-case letters, digits, "." and "-",
\* no upper-case drive letter at the head of the path, no backslash in the
\* path on Windows, printable ASCII throughout and, when nothing is
\* percent-encoded, no "%" and no ";" in path, query and fragment
Canonical(win, u, encode) ==
  /\ AllStr(u)
  /\ SchemeGrammar(u.scheme)
  /\ u.scheme = Lower(u.scheme)
  /\ \A c \in Chars(u.authority) : IsLower(c) \/ IsDigit(c) \/ c \in {".", "-"}
  /\ DriveLetterEnd(u.path) > 0 => ~IsUpper(u.path[DriveLetterEnd(u.path) - 1])
  /\ win => "\\" \notin Chars(u.path)
  /\ \A c \in Chars(u.path) \cup Chars(u.query) \cup Chars(u.fragment) :
       /\ c # OtherChar
       /\ Ord(c) >= 32
       /\ ~encode => c \notin {"%", ";"}

\* C1 as the specification states it: for every Uri u that create returned,
\* Uri.parse(u.as_string(encode)) equals u component by component, for
\* encode true and false.
C1_RoundTripAsStated == (op = "parse_back" /\ AllStr(self)) => ret = RetUri(self)

\* C1, amended: for every Uri u that create returned and that is canonical
\* for encode, Uri.parse(u.as_string(encode)) returns a Uri equal to u
\* component by component.
C1_RoundTrip ==
  (op = "parse_back" /\ Canonical(isWin, self, arg[1])) => ret = RetUri(self)

\* A canonical Uri whose query holds "%" and "#" has been written with
\* encode true and parsed back, and one whose fragment holds "#" can be
\* written with encode false
C1_Witness ==
  /\ op = "parse_back"
  /\ arg[1]
  /\ Canonical(isWin, self, TRUE)
  /\ self.query = <<"%", "4", "1", "#">>
  /\ self.fragment = <<"f", "#">>
  /\ Canonical(isWin, self, FALSE) = FALSE
  /\ ret = RetUri(self)

---------------------------------------------------------------------------
(* C2, C3: the checks of __attrs_post_init__ behind create.                *)

\* C2: for every scheme of the grammar other than http, https and file,
\* create with a non-empty authority and a non-empty path raises ValueError
\* and binds no Uri when the path does not start with "/", and returns a
\* Uri of exactly the given components when it does.
C2_SlashCheck ==
  (/\ op = "create"
   /\ SchemeGrammar(arg.scheme)
   /\ arg.scheme \notin CoercedSchemes
   /\ arg.authority # <<>>
   /\ arg.path # <<>>)
  => IF StartsWith(arg.path, <<"/">>)
     THEN ret = RetUri(arg) /\ self = arg
     ELSE ret = Raise("ValueError") /\ self = NoUri

\* create(scheme="s", authority="h", path="a") has raised ValueError
C2_Witness ==
  /\ op = "create"
  /\ arg.scheme = <<"s">>
  /\ arg.authority = <<"h">>
  /\ arg.path = <<"a">>
  /\ ret = Raise("ValueError")

\* C3: for every scheme of the grammar, http, https and file among them,
\* create with an empty authority and a path that starts with "//" raises
\* ValueError and binds no Uri.
C3_DoubleSlashCheck ==
  (/\ op = "create"
   /\ SchemeGrammar(arg.scheme)
   /\ arg.authority = <<>>
   /\ StartsWith(arg.path, <<"/", "/">>))
  => (ret = Raise("ValueError") /\ self = NoUri)

\* create(scheme="file", authority="", path="//a") has raised ValueError
C3_Witness ==
  /\ op = "create"
  /\ arg.scheme = File
  /\ arg.authority = <<>>
  /\ arg.path = <<"/", "/", "a">>
  /\ ret = Raise("ValueError")

---------------------------------------------------------------------------
(* C4: where(k=None).                                                      *)

\* What removing component k of u leaves: the empty string, and "/" for the
\* path under http, https or file
Removed(u, k) ==
  With(u, k, IF k = "path" /\ u.scheme \in CoercedSchemes THEN <<"/">> ELSE <<>>)

\* Equal component by component, an absent component being an empty one
SameUri(u, v) ==
  /\ u.scheme = v.scheme
  /\ \A k \in {"authority", "path", "query", "fragment"} :
       IF Truthy(u[k]) THEN u[k] = v[k] ELSE ~Truthy(v[k])

\* C4: for every Uri u and every k among authority, path, query and
\* fragment, u.where(k=None) returns a Uri in which k is empty ("/" for the
\* path under http, https or file) and the other components are those of
\* u, provided the result satisfies the construction invariants; and a key
\* that is no component is ignored.
C4_WhereNone ==
  /\ (/\ op = "where"
      /\ arg[1] \in {"authority", "path", "query", "fragment"}
      /\ arg[2] = None
      /\ AllStr(self)
      /\ WellFormed(Removed(self, arg[1])))
     => (ret.kind = "uri" /\ SameUri(Removed(self, arg[1]), ret.val))
  /\ (op = "where" /\ arg[1] \notin Keys /\ AllStr(self) /\ WellFormed(self))
     => ret = RetUri(self)

---------------------------------------------------------------------------
(* C5: join.                                                               *)

\* The segments of a path with "." and "" dropped and ".." resolved
RECURSIVE Resolve(_, _, _)
Resolve(pieces, done, absolute) ==
  IF pieces = <<>> THEN done
  ELSE IF Head(pieces) \in {<<>>, <<".">>} THEN Resolve(Tail(pieces), done, absolute)
  ELSE IF Head(pieces) = <<".", ".">>
    THEN IF done # <<>> /\ done[Len(done)] # <<".", ".">>
           THEN Resolve(Tail(pieces), Upto(done, Len(done) - 1), absolute)
         ELSE IF absolute THEN Resolve(Tail(pieces), done, absolute)
         ELSE Resolve(Tail(pieces), Append(done, <<".", ".">>), absolute)
  ELSE Resolve(Tail(pieces), Append(done, Head(pieces)), absolute)

\* The normalised concatenation of a path and a segment: "." and ".."
\* collapsed, repeated "/" collapsed to one
NormalisedConcat(path, segment) ==
  LET absolute == StartsWith(path, <<"/">>)
      done == Resolve(Split(path \o <<"/">> \o segment, "/"), <<>>, absolute)
      body == Join(done, <<"/">>)
  IN IF absolute THEN <<"/">> \o body
     ELSE IF body = <<>> THEN <<".">> ELSE body

\* C5: for every Uri u with a non-empty path and every relative segment s,
\* u.join(s) returns a Uri whose path is the normalised concatenation of
\* u.path and s and whose other components are those of u.
C5_JoinNormalises ==
  (/\ op = "join"
   /\ AllStr(self)
   /\ WellFormed(self)
   /\ self.path # <<>>
   /\ ~StartsWith(arg, <<"/">>))
  => ret = RetUri(With(self, "path", NormalisedConcat(self.path, arg)))

---------------------------------------------------------------------------
(* C6: the case of a drive letter.                                         *)

SwapCase(c) == IF IsUpper(c) THEN LowerChar(c) ELSE UpperChar(c)

\* C6: for every drive letter L and every remainder r, the Uris parsed from
\* "file:///" + L + ":" + r with L in upper and in lower case have the same
\* fs_path, which starts with the lower-case letter and ":".
C6_DriveLetterCasing ==
  \A L \in DriveLetters, r \in Remainders :
    (op = "parse" /\ arg = DriveUri(L, r))
    => /\ ret.kind = "uri"
       /\ Parse(DriveUri(SwapCase(L), r)).kind = "uri"
       /\ FsPath(isWin, ret.val) = FsPath(isWin, Parse(DriveUri(SwapCase(L), r)).val)
       /\ FsPath(isWin, ret.val).kind = "str"
       /\ Upto(FsPath(isWin, ret.val).val, 2) = <<LowerChar(L), ":">>

\* "file:///C:/A/b" has been parsed and its fs_path is "c:/A/b"
C6_Witness ==
  /\ op = "parse"
  /\ arg = DriveUri("C", <<"/", "A", "/", "b">>)
  /\ ret.kind = "uri"
  /\ FsPath(isWin, ret.val) = RetStr(<<"c", ":", "/", "A", "/", "b">>)

---------------------------------------------------------------------------
(* C7: for_file of a UNC path.                                             *)

FileUri(authority, path) ==
  [scheme |-> File, authority |-> authority, path |-> path, query |-> <<>>,
   fragment |-> <<>>]

\* path starts with an upper-case drive letter and ":"
UpperDrive(path) == Len(path) >= 2 /\ IsUpper(path[1]) /\ path[2] = ":"

\* C7 as the specification states it: for every p = "//" + server + "/" +
\* rest, for_file(p) returns the file Uri of authority server and path "/" +
\* rest, and with the Windows flag off its fs_path is p.
C7_UncRoundTripAsStated ==
  \A server \in Servers, rest \in Rests :
    (op = "for_file" /\ arg = UncPath(server, rest))
    => /\ ret = RetUri(FileUri(server, <<"/">> \o rest))
       /\ ~isWin => FsPath(isWin, ret.val) = RetStr(arg)

\* C7, amended: for every p = "//" + server + "/" + rest whose rest does not
\* start with "/" and which, with the Windows flag on, holds no backslash,
\* for_file(p) returns the file Uri of authority server and path "/" + rest;
\* with the Windows flag off its fs_path is p unless rest starts with an
\* upper-case drive letter and ":".
C7_UncRoundTrip ==
  \A server \in Servers, rest \in Rests :
    (/\ op = "for_file"
     /\ arg = UncPath(server, rest)
     /\ ~StartsWith(rest, <<"/">>)
     /\ isWin => "\\" \notin Chars(arg))
    => /\ ret = RetUri(FileUri(server, <<"/">> \o rest))
       /\ (~isWin /\ ~UpperDrive(rest)) => FsPath(isWin, ret.val) = RetStr(arg)

\* for_file("//S/a/b") has returned, with the Windows flag off, a Uri whose
\* fs_path is "//S/a/b"
C7_Witness ==
  /\ op = "for_file"
  /\ ~isWin
  /\ arg = UncPath(<<"S">>, <<"a", "/", "b">>)
  /\ self = FileUri(<<"S">>, <<"/", "a", "/", "b">>)
  /\ FsPath(isWin, self) = RetStr(arg)

---------------------------------------------------------------------------
(* C8, C9: the legacy functions.                                           *)

\* C8: from_fs_path, to_fs_path, uri_scheme and uri_with return a str or
\* None for every input and let no error reach the caller.
C8_LegacyNeverRaises ==
  op \in {"from_fs_path", "to_fs_path", "uri_scheme", "uri_with"}
  => ret.kind \in {"str", "none"}

\* C9: for every string s that Uri.parse accepts with a non-empty parsed
\* path, and for each value of the Windows flag, to_fs_path(s) returns what
\* Uri.parse(s).fs_path is.
C9_LegacyAgrees ==
  (/\ op = "to_fs_path"
   /\ IsStr(arg)
   /\ Parse(arg).kind = "uri"
   /\ Truthy(Parse(arg).val.path))
  => ret = FsPath(isWin, Parse(arg).val)

---------------------------------------------------------------------------
(* C10: every Uri returned.                                                *)

\* C10: every Uri that create, parse, for_file, where or join has returned
\* satisfies the construction invariants.
C10_EveryUriWellFormed ==
  (op \in {"create", "parse", "parse_back", "for_file", "where", "join"} /\ ret.kind = "uri")
  => WellFormed(ret.val)

=============================================================================
